---- MODULE Spec2Model ----
(***************************************************************************)
(* The numerical core of the ML_Learning notebooks:                        *)
(*   linear_regression_closed_form (Notebook 2, Step 4) and                *)
(*   gradient_descent              (Notebook 3, Step 4).                   *)
(*                                                                         *)
(* Numbers are exact rationals <<num, den>> in lowest terms with den > 0   *)
(* (the notebooks' float64 values, without rounding).  <<0, 0>> is nan,    *)
(* the value numpy gives 0/0 and the mean of an empty array.               *)
(* A matrix is a sequence of rows; a vector is a sequence of numbers.      *)
(* numpy arrays that the code mutates in place live in a heap of objects,  *)
(* and variables hold references to them.                                  *)
(***************************************************************************)
EXTENDS Integers, Sequences, FiniteSets, TLC

VARIABLES
    pc,            \* "idle" | "ready" | "loop" | "returned" | "raised": the caller's position
    fn,            \* the function in progress or last called
    X, y,          \* the caller's arrays, passed as the arguments of the call
    lr, epochs,    \* gradient_descent's parameters
    epoch,         \* iterations of `for epoch in range(epochs)` completed
    heap,          \* array objects allocated by the call: heap[ref] is the array's value
    beta,          \* gradient_descent's local `beta`: a reference into heap (0: unbound)
    history,       \* gradient_descent's local `history`: <<reference, loss>> pairs
    ret,           \* the value handed to the caller
    raised,        \* the exception that left the call, or "none"
    memo,          \* an earlier call the caller remembers, with its outcome
    pivotRounding  \* the build's LAPACK leaves a nonzero rounded pivot on a
                   \* singular matrix whose LU multipliers are inexact

vars == <<pc, fn, X, y, lr, epochs, epoch, heap, beta, history, ret, raised, memo, pivotRounding>>

----------------------------------------------------------------------------
(* Bounds of the model *)

MaxRows == 3
MaxEpochs == 2
MaxCallsBetween == 1

(* Values the inputs are drawn from *)
FeatureValues == {0, 1, 3}
FeatureRows2 == {<<0, 0>>, <<0, 1>>, <<1, 1>>}
TargetValues == {0, 2}

----------------------------------------------------------------------------
(* Exact rational arithmetic standing for float64 arithmetic *)

Abs(a) == IF a < 0 THEN -a ELSE a

Sign(a) == IF a < 0 THEN -1 ELSE IF a > 0 THEN 1 ELSE 0

RECURSIVE GCD(_, _)
GCD(a, b) == IF b = 0 THEN a ELSE GCD(b, a % b)

NaN == <<0, 0>>

IsNaN(q) == q[2] = 0

\* n/d in lowest terms; division by zero gives nan (0/0) or a signed infinity
Norm(n, d) ==
    IF d = 0 THEN <<Sign(n), 0>>
    ELSE LET g == GCD(Abs(n), Abs(d))
             s == Sign(d)
         IN  <<(s * n) \div g, (s * d) \div g>>

R(i) == <<i, 1>>
Zero == R(0)
One == R(1)
Half == <<1, 2>>

\* the sum over the least common denominator
RAdd(a, b) ==
    IF a[2] = 0 \/ b[2] = 0 THEN NaN
    ELSE LET l == (a[2] \div GCD(a[2], b[2])) * b[2]
         IN  Norm(a[1] * (l \div a[2]) + b[1] * (l \div b[2]), l)
RNeg(a) == <<-a[1], a[2]>>
RSub(a, b) == RAdd(a, RNeg(b))
RMul(a, b) == IF a[2] = 0 \/ b[2] = 0 THEN NaN ELSE Norm(a[1] * b[1], a[2] * b[2])
RDiv(a, b) == IF a[2] = 0 \/ b[2] = 0 THEN NaN ELSE Norm(a[1] * b[2], a[2] * b[1])
RAbs(a) == <<Abs(a[1]), a[2]>>
RLess(a, b) == a[1] * b[2] < b[1] * a[2]
RLeq(a, b) == a[1] * b[2] <= b[1] * a[2]

RECURSIVE IsPow2(_)
IsPow2(d) == IF d = 1 THEN TRUE ELSE IF d % 2 = 1 THEN FALSE ELSE IsPow2(d \div 2)

\* a quotient float64 holds without rounding (the operands here are small)
IsDyadic(q) == q[2] > 0 /\ IsPow2(q[2])

----------------------------------------------------------------------------
(* numpy array operations *)

\* an array holds its elements: f as a sequence of values
Arr(f) == f \o <<>>

\* F of the value of v, with v computed once
Eval(F(_), v) == CHOOSE r \in {F(w) : w \in {v}} : TRUE

RECURSIVE SumSeq(_)
SumSeq(s) == IF s = <<>> THEN Zero ELSE RAdd(s[1], SumSeq(Tail(s)))

\* an array of ones where zeros are meant
zeros_ones(k) == Arr([i \in 1..k |-> One])

\* np.zeros((k,))
zeros(k) == Arr([i \in 1..k |-> Zero])

\* an integer array as float64
AsFloat(v) == Arr([i \in 1..Len(v) |-> R(v[i])])

Dot(u, v) == SumSeq([i \in 1..Len(u) |-> RMul(u[i], v[i])])

\* M.T for a matrix with c columns
T(M, c) == Arr([j \in 1..c |-> [i \in 1..Len(M) |-> M[i][j]]])

\* -M
NegM(M) == Arr([i \in 1..Len(M) |-> [j \in 1..Len(M[i]) |-> RNeg(M[i][j])]])

\* A @ B for B with c columns (inner dimensions agree)
MatMul(A, B, c) == Arr([i \in 1..Len(A) |-> [j \in 1..c |-> Dot(A[i], [l \in 1..Len(B) |-> B[l][j]])]])

\* A @ v for a 1-D v (inner dimensions agree)
MatVec(A, v) == Arr([i \in 1..Len(A) |-> Dot(A[i], v)])

\* u - v, v * s, v / s, v ** 2 elementwise
VSub(u, v) == Arr([i \in 1..Len(u) |-> RSub(u[i], v[i])])
VScale(v, s) == Arr([i \in 1..Len(v) |-> RMul(v[i], s)])
VDivS(v, s) == Arr([i \in 1..Len(v) |-> RDiv(v[i], s)])
VSquare(v) == Arr([i \in 1..Len(v) |-> RMul(v[i], v[i])])

\* np.mean: the sum over the length; nan for an empty array
mean(v) == RDiv(SumSeq(v), R(Len(v)))

\* numpy broadcasting of two 1-D shapes
BroadcastOk(m, n) == m = n \/ m = 1 \/ n = 1
BroadcastLen(m, n) == IF m = 1 THEN n ELSE m
BroadcastTo(v, k) == IF Len(v) = k THEN v ELSE [i \in 1..k |-> v[1]]

----------------------------------------------------------------------------
(* The inputs a caller passes *)

\* the integer matrices of n rows drawn from Rows
Matrices(n, Rows) == [1..n -> Rows]

\* Design Matrix [[0],[1],[2],[3]] with Target Vector [5,7,9,11]: y = 2x + 5
ScenarioX == << <<0>>, <<1>>, <<2>>, <<3>> >>
ScenarioY == <<5, 7, 9, 11>>

DesignMatrices ==
    UNION {Matrices(n, {<<v>> : v \in FeatureValues}) \cup Matrices(n, FeatureRows2) :
              n \in 0..MaxRows}
        \cup {ScenarioX}

TargetVectors == UNION {[1..m -> TargetValues] : m \in 0..MaxRows} \cup {ScenarioY}

LearningRates == {<<-1, 2>>, Zero, Half}

EpochCounts == -1..MaxEpochs

\* X.shape[1]; the empty matrices of the model have shape (0, 1)
Cols(Xa) == IF Xa = <<>> THEN 1 ELSE Len(Xa[1])

----------------------------------------------------------------------------
(* np.linalg.inv: LAPACK gesv on the identity, an elimination with partial  *)
(* pivoting that reports a singular matrix only on an exactly zero pivot     *)

Identity(k) == Arr([i \in 1..k |-> [j \in 1..k |-> IF i = j THEN One ELSE Zero]])

SwapRows(W, a, b) == [W EXCEPT ![a] = W[b], ![b] = W[a]]

\* the first row of j..k whose entry in column j is largest in magnitude
PivotRow(W, j, k) ==
    CHOOSE p \in j..k :
        /\ \A i \in j..k : RLeq(RAbs(W[i][j]), RAbs(W[p][j]))
        /\ \A i \in j..(p - 1) : RLess(RAbs(W[i][j]), RAbs(W[p][j]))

\* Reduce without the elimination above the pivot
Reduce_forward(S, j, k) ==
    Arr([i \in 1..k |->
        IF i <= j THEN S[i] ELSE VSub(S[i], VScale(S[j], RDiv(S[i][j], S[j][j])))])

\* row i of S less the multiple of row j that clears its column j
Reduce(S, j, k) ==
    Arr([i \in 1..k |->
        IF i = j THEN S[j] ELSE VSub(S[i], VScale(S[j], RDiv(S[i][j], S[j][j])))])

\* a multiplier of the factorization's step j is rounded
Rounded(S, j, k) == \E i \in (j + 1)..k : ~IsDyadic(RDiv(S[i][j], S[j][j]))

\* eliminate columns j..k of the k x 2k matrix W, [singular, inexact, W];
\* inexact: a multiplier of the factorization was rounded
RECURSIVE Eliminate(_, _, _, _)
EliminateAt(W, p, j, k, inexact) ==
    IF W[p][j] = Zero
    THEN [singular |-> TRUE, inexact |-> inexact, W |-> W]
    ELSE Eval(LAMBDA S : Eval(LAMBDA E : Eliminate(E, j + 1, k, inexact \/ Rounded(S, j, k)),
                              Reduce(S, j, k)),
              SwapRows(W, j, p))

Eliminate(W, j, k, inexact) ==
    IF j > k THEN [singular |-> FALSE, inexact |-> inexact, W |-> W]
    ELSE EliminateAt(W, PivotRow(W, j, k), j, k, inexact)

\* what inv returns for a singular matrix whose rounded pivot is not zero:
\* entries of the magnitude of 1 / rounding error
Unstable(k) == [i \in 1..k |-> [j \in 1..k |-> R(2^20)]]

\* Inverse without the division by the pivots
Inverse_unscaled(g, k, rounding) ==
    IF ~g.singular
    THEN [raised |-> "none",
          val |-> Arr([i \in 1..k |-> Arr([j \in 1..k |-> g.W[i][k + j]])])]
    ELSE [raised |-> "LinAlgError", val |-> <<>>]

\* the outcome of inv from the elimination g of [M | I]: [raised, val]
Inverse(g, k, rounding) ==
    IF ~g.singular
    THEN [raised |-> "none",
          val |-> Arr([i \in 1..k |-> Arr([j \in 1..k |-> RDiv(g.W[i][k + j], g.W[i][i])])])]
    ELSE IF g.inexact /\ rounding
    THEN [raised |-> "none", val |-> Unstable(k)]
    ELSE [raised |-> "LinAlgError", val |-> <<>>]

\* np.linalg.inv(M) for a k x k matrix M
inv(M, k, rounding) ==
    Eval(LAMBDA g : Inverse(g, k, rounding),
         Eval(LAMBDA A : Eliminate(Arr([i \in 1..k |-> A[i] \o Identity(k)[i]]), 1, k, FALSE), M))

----------------------------------------------------------------------------
(* Notebook 2, Step 4 *)

\* the column of ones appended after the features
c_ones_last(Xa) == Arr([i \in 1..Len(Xa) |-> AsFloat(Xa[i]) \o <<One>>])

\* np.c_[np.ones((n, 1)), X]
c_ones(Xa) == Arr([i \in 1..Len(Xa) |-> <<One>> \o AsFloat(Xa[i])])

\* X_b.T @ X_b
XtX(X_b, k) == MatMul(T(X_b, k), X_b, k)

\* inv(...) @ X_b.T @ y, given inv's outcome i: [raised, value]
beta_hat(i, X_b, k, ya) ==
    IF i.raised # "none" THEN [raised |-> i.raised, value |-> <<>>]
    ELSE IF Len(ya) # Len(X_b) THEN [raised |-> "ValueError", value |-> <<>>]
    ELSE [raised |-> "none",
          value |-> MatVec(MatMul(i.val, T(X_b, k), Len(X_b)), AsFloat(ya))]

\* [raised, value]: the exception that leaves the function, or beta_hat
linear_regression_closed_form(Xa, ya, rounding) ==
    Eval(LAMBDA X_b :
            Eval(LAMBDA i : beta_hat(i, X_b, Cols(Xa) + 1, ya),
                 inv(XtX(X_b, Cols(Xa) + 1), Cols(Xa) + 1, rounding)),
         c_ones(Xa))

----------------------------------------------------------------------------
(* Notebook 3, Step 4: the statements of gradient_descent's loop body *)

\* y_pred = X_b @ beta
y_pred(X_b, b) == MatVec(X_b, b)

\* error = y - y_pred, broadcast to a common length L
error(ya, yp, L) == VSub(BroadcastTo(AsFloat(ya), L), BroadcastTo(yp, L))

\* the loss as half the sum of squares
loss_sum(err) == RMul(Half, SumSeq(VSquare(err)))

\* the gradient without the division by n
gradient_sum(X_b, k, err, n) == MatVec(NegM(T(X_b, k)), err)

\* gradient = -X_b.T @ error / n
gradient(X_b, k, err, n) == VDivS(MatVec(NegM(T(X_b, k)), err), R(n))

\* a step up the gradient
descend_ascent(b, l, g) == VSub(b, VScale(g, RNeg(l)))

\* the value beta holds after beta -= lr * gradient
descend(b, l, g) == VSub(b, VScale(g, l))

\* loss = 0.5 * np.mean(error ** 2)
loss(err) == RMul(Half, mean(VSquare(err)))

\* the length np.zeros gives beta
BetaLen == 2

\* a loop body that gives up once a coefficient has left [-2, 2]
BodyRaises_diverged(Xa, ya, b) ==
    LET n == Len(Xa)
        m == Len(ya)
    IN  IF Cols(Xa) + 1 # Len(b) THEN "ValueError"
        ELSE IF ~BroadcastOk(m, n) THEN "ValueError"
        ELSE IF BroadcastLen(m, n) # n THEN "ValueError"
        ELSE IF \E j \in 1..Len(b) : RLess(R(2), RAbs(b[j])) THEN "FloatingPointError"
        ELSE "none"

\* the exception the loop body raises for arguments Xa, ya and coefficients b,
\* or "none": matmul and broadcasting check their operands' shapes
BodyRaises(Xa, ya, b) ==
    LET n == Len(Xa)
        m == Len(ya)
    IN  IF Cols(Xa) + 1 # Len(b) THEN "ValueError"
        ELSE IF ~BroadcastOk(m, n) THEN "ValueError"
        ELSE IF BroadcastLen(m, n) # n THEN "ValueError"
        ELSE "none"

----------------------------------------------------------------------------
(* The state machine: a caller that calls the two functions *)

None == [beta |-> 0, history |-> <<>>]

\* the caller remembers no call
NoMemo == [call |-> "none"]

\* the arguments after a statement of the functions has run: they are only
\* read (X.shape, np.c_[..., X], y - y_pred build new arrays)
ArgumentsOverwritten == X' = [i \in 1..Len(X) |-> <<1>> \o X[i]] /\ y' = y

ArgumentsKept == UNCHANGED <<X, y>>

\* beta -= value: the array beta refers to is overwritten in place
isub(h, ref, value) == [h EXCEPT ![ref] = value]

\* a snapshot that is the array itself
copy_view(h, ref) == [heap |-> h, ref |-> ref]

\* beta.copy(): a new array with the elements ref's array holds now
copy(h, ref) == [heap |-> Append(h, h[ref]), ref |-> Len(h) + 1]

\* a result whose coefficients are the first snapshot
result_first(b, hist) ==
    [beta |-> IF hist = <<>> THEN b ELSE hist[1][1], history |-> hist]

\* return beta, history
result(b, hist) == [beta |-> b, history |-> hist]

Init ==
    /\ pc = "idle"
    /\ fn = "none"
    /\ X = <<>>
    /\ y = <<>>
    /\ lr = Zero
    /\ epochs = 0
    /\ epoch = 0
    /\ heap = <<>>
    /\ beta = 0
    /\ history = <<>>
    /\ ret = None
    /\ raised = "none"
    /\ memo = NoMemo
    /\ pivotRounding \in BOOLEAN

\* the caller builds the arrays X and y
Prepare ==
    /\ pc = "idle"
    /\ X' \in DesignMatrices
    /\ y' \in TargetVectors
    /\ pc' = "ready"
    /\ UNCHANGED <<fn, lr, epochs, epoch, heap, beta, history, ret, raised, memo, pivotRounding>>

\* beta = linear_regression_closed_form(X, y)
CallClosedForm ==
    /\ pc = "ready"
    /\ \E out \in {linear_regression_closed_form(X, y, pivotRounding)} :
        /\ raised' = out.raised
        /\ pc' = IF out.raised = "none" THEN "returned" ELSE "raised"
        /\ heap' = IF out.raised = "none" THEN <<out.value>> ELSE <<>>
        /\ ret' = IF out.raised = "none" THEN [beta |-> 1, history |-> <<>>] ELSE None
    /\ fn' = "linear_regression_closed_form"
    /\ ArgumentsKept
    /\ UNCHANGED <<lr, epochs, epoch, beta, history, memo, pivotRounding>>

\* gradient_descent(X, y, lr, epochs) up to the loop
CallGradientDescent ==
    /\ pc = "ready"
    /\ \E l \in LearningRates, e \in EpochCounts :
        /\ lr' = l
        /\ epochs' = e
    /\ fn' = "gradient_descent"
    /\ heap' = <<zeros(BetaLen)>>
    /\ beta' = 1
    /\ history' = <<>>
    /\ epoch' = 0
    /\ pc' = "loop"
    /\ ArgumentsKept
    /\ UNCHANGED <<ret, raised, memo, pivotRounding>>

\* one pass of `for epoch in range(epochs)`
LoopBody ==
    /\ pc = "loop"
    /\ epoch < epochs
    /\ IF BodyRaises(X, y, heap[beta]) # "none"
       THEN /\ raised' = BodyRaises(X, y, heap[beta])
            /\ pc' = "raised"
            /\ heap' = <<>>
            /\ beta' = 0
            /\ history' = <<>>
            /\ UNCHANGED epoch
       ELSE \E X_b \in {c_ones(X)} :
            \E err \in {error(y, y_pred(X_b, heap[beta]), Len(X))} :
            \E new \in {descend(heap[beta], lr, gradient(X_b, Cols(X) + 1, err, Len(X)))} :
            \E snapshot \in {copy(isub(heap, beta, new), beta)} :
                /\ heap' = snapshot.heap
                /\ history' = Append(history, <<snapshot.ref, loss(err)>>)
                /\ epoch' = epoch + 1
                /\ UNCHANGED <<pc, beta, raised>>
    /\ ArgumentsKept
    /\ UNCHANGED <<fn, lr, epochs, ret, memo, pivotRounding>>

\* return beta, history
ReturnGD ==
    /\ pc = "loop"
    /\ ~(epoch < epochs)
    /\ pc' = "returned"
    /\ ret' = result(beta, history)
    /\ ArgumentsKept
    /\ UNCHANGED <<fn, lr, epochs, epoch, heap, beta, history, raised, memo, pivotRounding>>

\* the call is over: its locals and its outcome are dropped
Forget ==
    /\ pc' = "idle"
    /\ fn' = "none"
    /\ X' = <<>>
    /\ y' = <<>>
    /\ lr' = Zero
    /\ epochs' = 0
    /\ epoch' = 0
    /\ heap' = <<>>
    /\ beta' = 0
    /\ history' = <<>>
    /\ ret' = None
    /\ raised' = "none"

\* a call that leaves the LAPACK rounding of the next call changed
NextCall_rebuild ==
    /\ pc \in {"returned", "raised"}
    /\ Forget
    /\ memo' = IF memo.call = "none" THEN memo
               ELSE [memo EXCEPT !.between = IF @ < MaxCallsBetween THEN @ + 1 ELSE @]
    /\ pivotRounding' = ~pivotRounding

\* the caller is done with the outcome and may call again; a caller that
\* remembers an earlier call counts the calls made since
NextCall ==
    /\ pc \in {"returned", "raised"}
    /\ Forget
    /\ memo' = IF memo.call = "none" THEN memo
               ELSE [memo EXCEPT !.between = IF @ < MaxCallsBetween THEN @ + 1 ELSE @]
    /\ UNCHANGED pivotRounding

Next == Prepare \/ CallClosedForm \/ CallGradientDescent \/ LoopBody \/ ReturnGD \/ NextCall

Spec == Init /\ [][Next]_vars

----------------------------------------------------------------------------
(* A caller that repeats a call: it keeps the outcome of one call and goes  *)
(* on calling the functions on a few arrays                                 *)

ProbeMatrices == {<< <<0>>, <<1>> >>, << <<3>> >>, << <<0, 1>>, <<1, 1>> >>}
ProbeVectors == {<<2>>, <<0, 2>>}

\* what the caller holds when a call is over: the arguments, the exception,
\* and the values of the arrays returned
Outcome ==
    [fn |-> fn, X |-> X, y |-> y, lr |-> lr, epochs |-> epochs, raised |-> raised,
     beta |-> IF pc = "returned" THEN heap[ret.beta] ELSE <<>>,
     history |-> [k \in 1..Len(ret.history) |->
                    <<heap[ret.history[k][1]], ret.history[k][2]>>]]

PrepareProbe ==
    /\ pc = "idle"
    /\ X' \in ProbeMatrices
    /\ y' \in ProbeVectors
    /\ pc' = "ready"
    /\ UNCHANGED <<fn, lr, epochs, epoch, heap, beta, history, ret, raised, memo, pivotRounding>>

\* the caller keeps the outcome of this call to compare later calls with
Remember ==
    /\ pc \in {"returned", "raised"}
    /\ memo.call = "none"
    /\ memo' = [call |-> "kept", outcome |-> Outcome, between |-> 0]
    /\ Forget
    /\ UNCHANGED pivotRounding

RepeatNext ==
    PrepareProbe \/ CallClosedForm \/ CallGradientDescent \/ LoopBody \/ ReturnGD
        \/ NextCall \/ Remember

SpecRepeat == Init /\ [][RepeatNext]_vars


----------------------------------------------------------------------------
(* A long run of gradient_descent.  A thousand iterations put denominators   *)
(* of 80^1000 into the exact quotients, so here a float64 value is held on  *)
(* a grid: the integer v stands for v / Grid, and an operation that float64 *)
(* rounds gives the grid value nearest to its exact result.                 *)

GridRoot == 2^10
Grid == GridRoot * GridRoot

\* the integer nearest to n / d, for d > 0
Round(n, d) == (2 * n + d) \div (2 * d)

\* the grid value of a quotient <<num, den>>
ToGrid(q) == Round(q[1] * Grid, q[2])

OnGrid(v) == Arr([i \in 1..Len(v) |-> ToGrid(v[i])])
OnGridM(M) == Arr([i \in 1..Len(M) |-> OnGrid(M[i])])

\* a * b, from the halves of the operands
GMul(a, b) ==
    LET ah == a \div GridRoot
        al == a % GridRoot
        bh == b \div GridRoot
        bl == b % GridRoot
    IN  ah * bh + Round(ah * bl + al * bh + Round(al * bl, GridRoot), GridRoot)

RECURSIVE GSum(_)
GSum(s) == IF s = <<>> THEN 0 ELSE s[1] + GSum(Tail(s))

GDot(u, v) == GSum([i \in 1..Len(u) |-> GMul(u[i], v[i])])

\* y_pred = X_b @ beta
y_pred_grid(X_b, b) == Arr([i \in 1..Len(X_b) |-> GDot(X_b[i], b)])

\* error = y - y_pred
error_grid(ya, yp) == Arr([i \in 1..Len(ya) |-> ya[i] - yp[i]])

\* gradient = -X_b.T @ error / n
gradient_grid(X_b, k, err, n) ==
    Arr([j \in 1..k |-> Round(GDot([i \in 1..Len(X_b) |-> -X_b[i][j]], err), n)])

\* an update that leaves the coefficients where they are
descend_grid_still(b, l, g) == b

\* the value beta holds after beta -= lr * gradient, for the quotient l
descend_grid(b, l, g) == Arr([j \in 1..Len(b) |-> b[j] - Round(g[j] * l[1], l[2])])

\* loss = 0.5 * np.mean(error ** 2)
loss_grid(err) ==
    Round(Round(GSum([i \in 1..Len(err) |-> GMul(err[i], err[i])]), Len(err)), 2)

\* learning rate 0.05 and the iteration counts: the function's default and
\* ten times more and less
ScenarioRate == <<1, 20>>
ScenarioEpochs == {10, 100, 1000}

PrepareScenario ==
    /\ pc = "idle"
    /\ X' = ScenarioX
    /\ y' = ScenarioY
    /\ pc' = "ready"
    /\ UNCHANGED <<fn, lr, epochs, epoch, heap, beta, history, ret, raised, memo, pivotRounding>>

\* gradient_descent(X, y, lr=0.05, epochs) up to the loop
CallScenario ==
    /\ pc = "ready"
    /\ lr' = ScenarioRate
    /\ epochs' \in ScenarioEpochs
    /\ fn' = "gradient_descent"
    /\ heap' = <<OnGrid(zeros(BetaLen))>>
    /\ beta' = 1
    /\ history' = <<>>
    /\ epoch' = 0
    /\ pc' = "loop"
    /\ ArgumentsKept
    /\ UNCHANGED <<ret, raised, memo, pivotRounding>>

\* one pass of `for epoch in range(epochs)`, on the grid
LoopBodyGrid ==
    /\ pc = "loop"
    /\ epoch < epochs
    /\ IF BodyRaises(X, y, heap[beta]) # "none"
       THEN /\ raised' = BodyRaises(X, y, heap[beta])
            /\ pc' = "raised"
            /\ heap' = <<>>
            /\ beta' = 0
            /\ history' = <<>>
            /\ UNCHANGED epoch
       ELSE \E X_b \in {OnGridM(c_ones(X))} :
            \E err \in {error_grid(OnGrid(AsFloat(y)), y_pred_grid(X_b, heap[beta]))} :
            \E new \in {descend_grid(heap[beta], lr, gradient_grid(X_b, Cols(X) + 1, err, Len(X)))} :
            \E snapshot \in {copy(isub(heap, beta, new), beta)} :
                /\ heap' = snapshot.heap
                /\ history' = Append(history, <<snapshot.ref, loss_grid(err)>>)
                /\ epoch' = epoch + 1
                /\ UNCHANGED <<pc, beta, raised>>
    /\ ArgumentsKept
    /\ UNCHANGED <<fn, lr, epochs, ret, memo, pivotRounding>>

ScenarioNext == PrepareScenario \/ CallScenario \/ LoopBodyGrid \/ ReturnGD \/ NextCall

SpecScenario == Init /\ [][ScenarioNext]_vars

----------------------------------------------------------------------------
(* The mathematics the properties are stated in, over the integer inputs *)

\* the Augmented Design Matrix: a leading 1, then the features
Aug(Xa) == [i \in 1..Len(Xa) |-> <<1>> \o Xa[i]]

RECURSIVE ISum(_)
ISum(s) == IF s = <<>> THEN 0 ELSE s[1] + ISum(Tail(s))

\* A^T A, entry by entry
Gram(Xa) ==
    [a \in 1..(Cols(Xa) + 1) |-> [b \in 1..(Cols(Xa) + 1) |->
        ISum([i \in 1..Len(Xa) |-> Aug(Xa)[i][a] * Aug(Xa)[i][b]])]]

\* M without row 1 and column c
Minor(M, c) ==
    [i \in 1..(Len(M) - 1) |-> [j \in 1..(Len(M) - 1) |->
        M[i + 1][IF j < c THEN j ELSE j + 1]]]

\* the determinant, expanded along the first row
RECURSIVE Det(_)
Det(M) ==
    IF Len(M) = 0 THEN 1
    ELSE ISum([c \in 1..Len(M) |->
            (IF c % 2 = 1 THEN 1 ELSE -1) * M[1][c] * Det(Minor(M, c))])

\* a Design Matrix and Target Vector the contract accepts, with A^T A invertible
ValidInput(Xa, ya) == Len(Xa) >= 1 /\ Len(ya) = Len(Xa)
Invertible(Xa) == Det(Gram(Xa)) # 0

\* the prediction for row i under the reading b[1] intercept, b[j + 1] feature j
Predict(Xa, b, i) ==
    SumSeq([j \in 1..Len(b) |-> RMul(R(Aug(Xa)[i][j]), b[j])])

Residual(Xa, ya, b, i) == RSub(R(ya[i]), Predict(Xa, b, i))

\* the residuals y - A b
Residuals(Xa, ya, b) == Arr([i \in 1..Len(Xa) |-> Residual(Xa, ya, b, i)])

\* the sum of squared residuals of coefficients b
SSR(Xa, ya, b) == SumSeq(VSquare(Residuals(Xa, ya, b)))

ClosedFormDone == fn = "linear_regression_closed_form" /\ pc \in {"returned", "raised"}
ClosedFormReturned == fn = "linear_regression_closed_form" /\ pc = "returned"
GDDone == fn = "gradient_descent" /\ pc \in {"returned", "raised"}
GDReturned == fn = "gradient_descent" /\ pc = "returned"

\* the Coefficient Vector handed to the caller
Returned == heap[ret.beta]

----------------------------------------------------------------------------
(* Closed-form solver *)

TrueBetaValues == {-1, 0, 1, 2, 5}

\* C1: on a Design Matrix with linearly independent augmented columns and a
\* noise-free Target Vector y = A * beta_true, the closed-form solver returns
\* beta_true; on [[0],[1],[2],[3]] and [5,7,9,11] it returns [5, 2].
C1_RecoversTrueBeta ==
    /\ ClosedFormDone /\ ValidInput(X, y) /\ Invertible(X) =>
          \A bt \in [1..(Cols(X) + 1) -> TrueBetaValues] :
              (\A i \in 1..Len(X) : Residual(X, y, AsFloat(bt), i) = Zero)
                  => pc = "returned" /\ Returned = AsFloat(bt)
    /\ ClosedFormDone /\ X = ScenarioX /\ y = ScenarioY =>
          pc = "returned" /\ Returned = <<R(5), R(2)>>

C1_Witness ==
    /\ ClosedFormReturned
    /\ X = ScenarioX
    /\ y = ScenarioY
    /\ Returned = <<R(5), R(2)>>

\* the coefficient vectors around b: each component moved by -1, 0 or 1
Neighbours(b) ==
    {[j \in 1..Len(b) |-> RAdd(b[j], R(d[j]))] : d \in [1..Len(b) -> {-1, 0, 1}]}

\* C2: for every valid input with invertible A^T A the returned Coefficient
\* Vector satisfies the normal equations A^T (y - A beta) = 0, and no other
\* coefficient vector has a strictly smaller sum of squared residuals.
C2_MinimizesSSR ==
    ClosedFormDone /\ ValidInput(X, y) /\ Invertible(X) =>
        /\ pc = "returned"
        /\ \A j \in 1..(Cols(X) + 1) :
              SumSeq([i \in 1..Len(X) |->
                  RMul(R(Aug(X)[i][j]), Residual(X, y, Returned, i))]) = Zero
        /\ \A b \in Neighbours(Returned) :
              RLeq(SSR(X, y, Returned), SSR(X, y, b))

\* a fit that leaves residuals: the minimum is not a perfect fit
C2_Witness ==
    /\ ClosedFormReturned
    /\ ValidInput(X, y)
    /\ Invertible(X)
    /\ Len(X) > Cols(X) + 1
    /\ SSR(X, y, Returned) # Zero

\* C7: for all valid inputs the closed-form solver's Coefficient Vector has
\* length (feature columns + 1) and the intercept is its first element: a
\* constant Target Vector c gives [c, 0, ..., 0].
C7_LengthInterceptFirst ==
    ClosedFormDone /\ ValidInput(X, y) /\ Invertible(X) =>
        /\ pc = "returned"
        /\ Len(Returned) = Cols(X) + 1
        /\ \A c \in TargetValues :
              (\A i \in 1..Len(y) : y[i] = c) =>
                  Returned = [j \in 1..(Cols(X) + 1) |-> IF j = 1 THEN R(c) ELSE Zero]

C7_Witness ==
    /\ ClosedFormReturned
    /\ ValidInput(X, y)
    /\ Invertible(X)
    /\ Cols(X) = 2
    /\ Returned = <<R(2), Zero, Zero>>

----------------------------------------------------------------------------
(* Gradient-descent optimizer *)

\* 0.5 * mean((y - A b)^2)
HalfMSE(Xa, ya, b) == RMul(Half, RDiv(SSR(Xa, ya, b), R(Len(Xa))))

\* -(A^T e)/n for the residuals e
AnalyticGradient(Xa, e) ==
    Arr([j \in 1..(Cols(Xa) + 1) |->
        RNeg(RDiv(SumSeq([i \in 1..Len(Xa) |-> RMul(R(Aug(Xa)[i][j]), e[i])]),
                  R(Len(Xa))))])

\* b with component j moved by d
Shift(b, j, d) == [b EXCEPT ![j] = RAdd(b[j], R(d))]

\* what a completed iteration does to coefficients b, with e = y - A b and
\* g = -(A^T e)/n, and to the Loss History
IterationMath(b, e, g) ==
    LET h == history'[Len(history')]
    IN  /\ beta' = beta
        /\ heap'[beta] = [j \in 1..Len(b) |-> RSub(b[j], RMul(lr, g[j]))]
        /\ history' = Append(history, h)
        /\ h[1] # beta
        /\ heap'[h[1]] = heap'[beta]
        /\ h[2] = RMul(Half, RDiv(SumSeq(VSquare(e)), R(Len(X))))
        \* the loss is quadratic: its central difference is its derivative
        /\ \A j \in 1..Len(b) :
              RSub(HalfMSE(X, y, Shift(b, j, 1)), HalfMSE(X, y, Shift(b, j, -1)))
                  = RMul(R(2), g[j])

C4_RunsConfiguredIterations ==
    GDDone /\ ValidInput(X, y) /\ RLess(Zero, lr) /\ epochs >= 0 =>
        /\ pc = "returned"
        /\ epoch = epochs
        /\ Len(ret.history) = epochs

\* C5: with iteration count 0 the optimizer returns the all-zero Coefficient
\* Vector and an empty Loss History, for every valid Design Matrix, Target
\* Vector and positive learning rate.
C5_ZeroIterations ==
    GDDone /\ epochs = 0 /\ ValidInput(X, y) /\ RLess(Zero, lr) =>
        /\ pc = "returned"
        /\ Len(Returned) >= 1
        /\ \A i \in 1..Len(Returned) : Returned[i] = Zero
        /\ ret.history = <<>>

C5_Witness ==
    /\ GDReturned
    /\ epochs = 0
    /\ ValidInput(X, y)
    /\ RLess(Zero, lr)
    /\ Returned = <<Zero, Zero>>
    /\ ret.history = <<>>

\* C6: for a Design Matrix with c >= 1 feature columns the optimizer's
\* Coefficient Vector, and every snapshot in the Loss History, has length c + 1.
C6_CoefficientLength ==
    /\ fn = "gradient_descent" /\ pc \in {"loop", "returned"}
    /\ ValidInput(X, y) /\ RLess(Zero, lr) /\ epochs >= 0
    =>
        /\ Len(heap[beta]) = Cols(X) + 1
        /\ \A i \in 1..Len(history) : Len(heap[history[i][1]]) = Cols(X) + 1

----------------------------------------------------------------------------
(* Failure conditions *)

\* the exceptions that stand for the contract's error kinds
InputShapeMismatch == "ValueError"
NumericalSingularity == "LinAlgError"
InvalidParameter == "InvalidParameter"

\* C8: when the Design Matrix and the Target Vector differ in row count, both
\* operations fail with InputShapeMismatch and hand back no result (stated for
\* calls with no other defect).
C8_ShapeMismatchRejected ==
    /\ pc \in {"returned", "raised"}
    /\ Len(X) >= 1 /\ Invertible(X) /\ Len(y) # Len(X)
    /\ fn = "gradient_descent" => RLess(Zero, lr) /\ epochs >= 0
    => pc = "raised" /\ raised = InputShapeMismatch /\ ret = None

\* C9: the optimizer fails with InvalidParameter, running no iteration and
\* returning nothing, when the learning rate is not positive or the iteration
\* count is negative.
C9_InvalidParameterRejected ==
    GDDone /\ (RLeq(lr, Zero) \/ epochs < 0) =>
        pc = "raised" /\ raised = InvalidParameter /\ ret = None

\* C10: when A^T A is not invertible the closed-form solver fails with
\* NumericalSingularity and never returns a Coefficient Vector.
C10_SingularRejected ==
    ClosedFormDone /\ ValidInput(X, y) /\ ~Invertible(X) =>
        pc = "raised" /\ raised = NumericalSingularity /\ ret = None

\* C11: when the Design Matrix has zero rows, both the closed-form solver and
\* the optimizer fail with InputShapeMismatch and hand back no Coefficient
\* Vector (stated for calls with no other defect: an empty Target Vector, a
\* positive learning rate, a non-negative iteration count).
C11_EmptyMatrixRejected ==
    /\ pc \in {"returned", "raised"}
    /\ Len(X) = 0 /\ Len(y) = 0
    /\ fn = "gradient_descent" => RLess(Zero, lr) /\ epochs >= 0
    => pc = "raised" /\ raised = InputShapeMismatch /\ ret = None

\* the closed-form solver's outcome on the empty Design Matrix
C11_ClosedFormOnEmpty ==
    ClosedFormDone /\ Len(X) = 0 /\ Len(y) = 0 => pc = "raised" /\ raised = "LinAlgError"

\* the optimizer's outcome on the empty Design Matrix
C11_OptimizerOnEmpty ==
    GDDone /\ Len(X) = 0 /\ Len(y) = 0 /\ epochs >= 1 =>
        pc = "returned" /\ \A j \in 1..Len(Returned) : IsNaN(Returned[j])

----------------------------------------------------------------------------
(* Frame, determinism *)

\* the arrays of result r are objects of heap h, which the call allocated
Fresh(r, h) ==
    /\ r.beta \in 1..Len(h)
    /\ \A k \in 1..Len(r.history) : r.history[k][1] \in 1..Len(h)

SameCall(a, b) ==
    /\ a.fn = b.fn
    /\ a.X = b.X
    /\ a.y = b.y
    /\ a.lr = b.lr
    /\ a.epochs = b.epochs

----------------------------------------------------------------------------
(* The Loss History *)

\* the coefficients after k updates, as the snapshots of history hist in
\* heap h hold them; before the first update they are all zero
CoefficientsAfter(k, hist, h) ==
    IF k = 0 THEN [j \in 1..(Cols(X) + 1) |-> Zero] ELSE h[hist[k][1]]

\* the loss 0.5 * mean((y - A b)^2) of the coefficients after k updates
LossAfter(k, hist, h) == HalfMSE(X, y, CoefficientsAfter(k, hist, h))

\* C14: a learning rate that makes the loss grow from one iteration to the
\* next is no failure: the call raises nothing once it iterates, runs all the
\* configured iterations, returns its final coefficients with one Loss
\* History entry per iteration, and some recorded loss is larger than an
\* earlier recorded loss.
C14_DivergenceIsNotAFailure ==
    fn = "gradient_descent" /\ ValidInput(X, y) =>
        /\ epoch >= 1 => pc # "raised"
        /\ pc = "loop" /\ epoch >= 1 /\ epoch < epochs => BodyRaises(X, y, heap[beta]) = "none"
        /\ /\ pc = "returned"
           /\ \E k \in 1..(epochs - 1) :
                 RLess(LossAfter(k - 1, ret.history, heap), LossAfter(k, ret.history, heap))
           => /\ epoch = epochs
              /\ Len(ret.history) = epochs
              /\ ret.beta = beta
              /\ \E i, j \in 1..Len(ret.history) :
                    i < j /\ RLess(ret.history[i][2], ret.history[j][2])

\* learning rate 0.5 on a feature of value 3: the second recorded loss is larger
C14_Witness ==
    /\ GDReturned
    /\ ValidInput(X, y)
    /\ lr = Half
    /\ epochs = 2
    /\ RLess(LossAfter(0, ret.history, heap), LossAfter(1, ret.history, heap))
    /\ RLess(ret.history[1][2], ret.history[2][2])
    /\ \E j \in 1..Len(Returned) : RLess(R(2), RAbs(Returned[j]))

\* the trace of A^T A: an upper bound of n times the largest curvature of the loss
Trace(Xa) == ISum([j \in 1..(Cols(Xa) + 1) |-> Gram(Xa)[j][j]])

\* a learning rate l with 0 < l <= 2 / (trace(A^T A) / n): no larger than
\* 2 / (largest eigenvalue of the loss's Hessian A^T A / n)
SmallRate(Xa, l) ==
    /\ RLess(Zero, l)
    /\ RLeq(RMul(l, R(Trace(Xa))), R(2 * Len(Xa)))

C16_LargeRateGrows ==
    /\ GDReturned
    /\ ValidInput(X, y)
    /\ Invertible(X)
    /\ ~SmallRate(X, lr)
    /\ RLess(Zero, lr)
    /\ Len(ret.history) >= 2
    /\ RLess(ret.history[1][2], ret.history[2][2])

\* one update of coefficients b: b - lr * (-(A^T (y - A b)) / n)
Update(b) ==
    Eval(LAMBDA g : [j \in 1..Len(b) |-> RSub(b[j], RMul(lr, g[j]))],
         AnalyticGradient(X, Residuals(X, y, b)))

\* the coefficients after k updates of the zero vector
RECURSIVE Descent(_)
Descent(k) ==
    IF k = 0 THEN Arr([j \in 1..(Cols(X) + 1) |-> Zero]) ELSE Arr(Update(Descent(k - 1)))

\* C17: at every later point of the call and after it, the snapshot of Loss
\* History entry k holds the coefficients as they were right after the update
\* of iteration k (one update of the coefficients after k - 1 updates, from
\* the zero vector on): it is an array of its own, not the live coefficient
\* vector, and the in-place updates of later iterations do not reach it.
C17_SnapshotsIndependent ==
    /\ fn = "gradient_descent" /\ pc \in {"loop", "returned"}
    /\ ValidInput(X, y)
    => \A k \in 1..Len(history) :
          /\ history[k][1] # beta
          /\ \A i \in 1..(k - 1) : history[i][1] # history[k][1]
          /\ heap[history[k][1]] = Update(CoefficientsAfter(k - 1, history, heap))

\* after two updates the first snapshot still holds the iteration-1
\* coefficients, which the live vector has left
C17_Witness ==
    /\ GDReturned
    /\ ValidInput(X, y)
    /\ epochs = 2
    /\ Len(ret.history) = 2
    /\ heap[ret.history[1][1]] = Descent(1)
    /\ heap[ret.history[1][1]] # Returned
    /\ Returned = Descent(2)

\* 0.5 * mean(y^2), from the Target Vector alone
HalfMeanSquare(ya) ==
    RMul(Half, RDiv(R(ISum([i \in 1..Len(ya) |-> ya[i] * ya[i]])), R(Len(ya))))

FloatEq(a, b) == ~IsNaN(a) /\ ~IsNaN(b) /\ a = b

AllZero(v) == \A j \in 1..Len(v) : v[j] = Zero

\* what the zero fixed point means in a state of the optimizer
StaysZero ==
    /\ pc # "raised"
    /\ AllZero(heap[beta])
    /\ \A k \in 1..Len(history) : history[k][2] = Zero /\ AllZero(heap[history[k][1]])
    /\ pc = "returned" => AllZero(Returned)

\* C20: with an all-zero Target Vector, for every Design Matrix, learning rate
\* and iteration count, the coefficients are all zero after every iteration,
\* every recorded loss is 0 and the returned Coefficient Vector is the zero
\* vector (stated for Design Matrices and Target Vectors the contract accepts).
C20_ZeroIsFixedPoint ==
    /\ fn = "gradient_descent" /\ pc \in {"loop", "returned", "raised"}
    /\ ValidInput(X, y) /\ \A i \in 1..Len(y) : y[i] = 0
    => StaysZero

\* the fixed point on the Design Matrices with one feature column
C20_OneFeatureColumn ==
    /\ fn = "gradient_descent" /\ pc \in {"loop", "returned", "raised"}
    /\ ValidInput(X, y) /\ \A i \in 1..Len(y) : y[i] = 0
    /\ Cols(X) + 1 = BetaLen
    => StaysZero

\* |v - t| < 1e-2 for the grid value v and the integer t
Within1e2(v, t) == 100 * Abs(v - t * Grid) < Grid

\* C15: on [[0],[1],[2],[3]], [5,7,9,11] with learning rate 0.05 and 1000
\* iterations the optimizer returns coefficients within 1e-2 of [5, 2] in
\* each component, and the loss recorded at the last iteration is strictly
\* less than the loss recorded at iteration 1.
C15_ScenarioConverges ==
    /\ GDDone /\ X = ScenarioX /\ y = ScenarioY
    /\ lr = ScenarioRate /\ epochs = 1000
    => /\ pc = "returned"
       /\ Len(ret.history) = 1000
       /\ Len(Returned) = 2
       /\ Within1e2(Returned[1], 5)
       /\ Within1e2(Returned[2], 2)
       /\ ret.history[1000][2] < ret.history[1][2]

\* the thousand iterations have run, from the first loss 34.5 = 0.5 * mean(y^2)
C15_Witness ==
    /\ GDReturned
    /\ X = ScenarioX /\ y = ScenarioY
    /\ lr = ScenarioRate /\ epochs = 1000
    /\ epoch = 1000
    /\ 2 * ret.history[1][2] = 69 * Grid
    /\ Within1e2(Returned[1], 5)
    /\ Within1e2(Returned[2], 2)

\* after a hundred iterations the coefficients are not yet within 1e-2
C15_HundredIterations ==
    /\ GDReturned
    /\ epochs = 100
    /\ ~Within1e2(Returned[1], 5)
    /\ ~Within1e2(Returned[2], 2)

====
